---------------------------- MODULE Spec2Model ----------------------------
(***************************************************************************)
(* Model of the BudgetApp transaction ingestion pipeline:                  *)
(*   src/load_transactions.py     the ingestion driver (module level code) *)
(*   src/transaction_processor.py TransactionProcessor (adapters, rule     *)
(*                                engine, process_csv)                     *)
(*   src/backend.py               the older single-source revision         *)
(*                                                                         *)
(* Text is modelled as a tuple of one-character strings, a pandas cell     *)
(* holding NaN as the tuple NaN, a Python float as a record [k, v] with v  *)
(* in hundredths, SQL NULL as the empty tuple.                             *)
(***************************************************************************)
EXTENDS Integers, Sequences, FiniteSets, TLC

\* ------------------------------------------------------------------------
\* Bounds of the model
\* ------------------------------------------------------------------------
MaxFiles == 2
MaxRows == 2
MaxRuns == 2
MaxMappings == 2
HashModulus == 64

\* ------------------------------------------------------------------------
\* Python and SQLite values
\* ------------------------------------------------------------------------
\* Python None, as a category label
PyNone == "<None>"

\* SQL NULL in a key column (what sqlite3 binds for None and for float NaN)
NULL == <<>>

\* the pandas missing-value marker of an empty CSV cell
NaN == <<"<NaN>">>

\* pd.notna(cell)
notna(cell) == cell # NaN

Num(v) == [k |-> "num", v |-> v]

FloatNaN == [k |-> "nan", v |-> 0]

ValueError == [k |-> "err", v |-> 0]

Abs(n) == IF n < 0 THEN -n ELSE n

\* abs(x) on a float
fabs(x) == IF x.k = "num" THEN Num(Abs(x.v)) ELSE x

\* -x on a float
fneg(x) == IF x.k = "num" THEN Num(-x.v) ELSE x

\* x < 0 on a float (every comparison with NaN is False)
fltzero(x) == x.k = "num" /\ x.v < 0

\* ------------------------------------------------------------------------
\* Text
\* ------------------------------------------------------------------------
Alphabet == <<"a", "b", "c", "d", "e", "f", "g", "i", "n", "r", "s", "t",
              "A", "B", "C", "D", "E", "F", "G", "I", "N", "R", "S", "T",
              "0", "1", "2", "3", "4", "5", "6", "7", "8", "9",
              "-", ",", ".", " ">>

Code(c) == CHOOSE i \in 1..Len(Alphabet) : Alphabet[i] = c

\* str.lower() on one character
LowerChar(c) == IF Code(c) \in 13..24 THEN Alphabet[Code(c) - 12] ELSE c

\* str.lower()
Lower(s) == [i \in 1..Len(s) |-> LowerChar(s[i])]

\* str.replace(',', '')
RECURSIVE StripCommas(_)
StripCommas(s) ==
    IF s = <<>> THEN <<>>
    ELSE IF Head(s) = "," THEN StripCommas(Tail(s))
    ELSE <<Head(s)>> \o StripCommas(Tail(s))

IsDigit(c) == Code(c) \in 25..34

DigitVal(c) == Code(c) - 25

RECURSIVE DigitsVal(_)
DigitsVal(s) ==
    IF s = <<>> THEN 0 ELSE DigitsVal(SubSeq(s, 1, Len(s) - 1)) * 10 + DigitVal(s[Len(s)])

AllDigits(s) == \A i \in 1..Len(s) : IsDigit(s[i])

DotAt(s) == IF \E i \in 1..Len(s) : s[i] = "."
            THEN CHOOSE i \in 1..Len(s) : s[i] = "." /\ \A j \in 1..(i - 1) : s[j] # "."
            ELSE 0

\* the unsigned decimal literals float() accepts here: digits, optionally
\* followed by a point and at most two digits; the value is in hundredths
UnsignedLiteral(s) ==
    LET d == DotAt(s)
        ip == IF d = 0 THEN s ELSE SubSeq(s, 1, d - 1)
        fp == IF d = 0 THEN <<>> ELSE SubSeq(s, d + 1, Len(s))
    IN IF ip # <<>> /\ AllDigits(ip) /\ AllDigits(fp) /\ Len(fp) <= 2
       THEN Num(DigitsVal(ip) * 100
                + (IF Len(fp) = 0 THEN 0
                   ELSE IF Len(fp) = 1 THEN DigitVal(fp[1]) * 10
                   ELSE DigitsVal(fp)))
       ELSE ValueError

\* float(s) for a text s
float(s) ==
    IF s = <<"n", "a", "n">> THEN FloatNaN
    ELSE IF s # <<>> /\ Head(s) = "-" THEN
        (IF UnsignedLiteral(Tail(s)).k = "num" THEN fneg(UnsignedLiteral(Tail(s))) ELSE ValueError)
    ELSE UnsignedLiteral(s)

\* str(cell): the text of a cell; NaN prints as 'nan'
str(cell) == IF cell = NaN THEN <<"n", "a", "n">> ELSE cell

\* float(str(cell).replace(',', ''))
ParseAmount(cell) == float(StripCommas(str(cell)))

\* ------------------------------------------------------------------------
\* Category Rule Engine
\* ------------------------------------------------------------------------
\* one pattern character against one text character under re.IGNORECASE;
\* the patterns are literal text in which "." matches any character
CharMatches(p, c) == p = "." \/ LowerChar(p) = LowerChar(c)

\* re.search(pattern, text, re.IGNORECASE): an unanchored search
re_search(pattern, text) ==
    \E off \in 0..(Len(text) - Len(pattern)) :
        \A i \in 1..Len(pattern) : CharMatches(pattern[i], text[off + i])

\* index of the first mapping entry whose pattern matches, 0 when none does
FirstMatch(mappings, description) ==
    IF \E i \in 1..Len(mappings) : re_search(mappings[i].pattern, description)
    THEN CHOOSE i \in 1..Len(mappings) :
            /\ re_search(mappings[i].pattern, description)
            /\ \A j \in 1..(i - 1) : ~re_search(mappings[j].pattern, description)
    ELSE 0

\* TransactionProcessor.categorize_description
categorize_description(mappings, description) ==
    IF FirstMatch(mappings, description) # 0
    THEN mappings[FirstMatch(mappings, description)].category
    ELSE "Uncategorized"

\* categorize_description of backend.py
backend_categorize_description(mappings, description) ==
    IF FirstMatch(mappings, description) # 0
    THEN mappings[FirstMatch(mappings, description)].category
    ELSE PyNone

\* truth value of a category label (None and '' are false)
Truthy(x) == x # PyNone /\ x # ""

\* ------------------------------------------------------------------------
\* hash() of a str: keyed by the hash seed of the process, a signed value
\* ------------------------------------------------------------------------
RECURSIVE HashFold(_, _)
HashFold(h, s) ==
    IF s = <<>> THEN h
    ELSE HashFold((h * 31 + Code(Head(s))) % HashModulus, Tail(s))

hash(seed, s) == HashFold((seed * 17 + 7) % HashModulus, s) - HashModulus \div 2

\* ------------------------------------------------------------------------
\* datetime.strptime
\* ------------------------------------------------------------------------
IsLeap(y) == (y % 4 = 0 /\ y % 100 # 0) \/ y % 400 = 0

DaysIn(y, m) ==
    IF m = 2 THEN (IF IsLeap(y) THEN 29 ELSE 28)
    ELSE IF m \in {4, 6, 9, 11} THEN 30 ELSE 31

BadDate == [ok |-> FALSE, y |-> 0, m |-> 0, d |-> 0]

\* datetime.strptime(cell, '%m/%d/%y'); the cell <<m, d, yy>> is the text
\* "m/d/yy", any other cell does not match the format
strptime_mdy(cell) ==
    IF cell # NaN /\ Len(cell) = 3 /\ cell[3] \in 0..99 /\ cell[1] \in 1..12
    THEN LET y == IF cell[3] <= 68 THEN 2000 + cell[3] ELSE 1900 + cell[3]
         IN IF cell[2] \in 1..DaysIn(y, cell[1])
            THEN [ok |-> TRUE, y |-> y, m |-> cell[1], d |-> cell[2]]
            ELSE BadDate
    ELSE BadDate

\* datetime.strptime(cell, '%Y-%m-%d'); the cell <<Y, m, d>> is the text
\* "Y-m-d"
strptime_ymd(cell) ==
    IF cell # NaN /\ Len(cell) = 3 /\ cell[1] \in 1..9999 /\ cell[2] \in 1..12
    THEN IF cell[3] \in 1..DaysIn(cell[1], cell[2])
         THEN [ok |-> TRUE, y |-> cell[1], m |-> cell[2], d |-> cell[3]]
         ELSE BadDate
    ELSE BadDate

\* strftime('%Y%m%d'), as the number the eight digits spell
Ymd8(t) == t.y * 10000 + t.m * 100 + t.d

\* ------------------------------------------------------------------------
\* Source Adapters
\* ------------------------------------------------------------------------
\* an adapter that raised
Raised == [ok |-> FALSE]

Returned(rec) == [ok |-> TRUE, rec |-> rec]

\* the value sqlite3 stores for a text cell (NaN is bound as NULL)
Bind(cell) == IF cell = NaN THEN NULL ELSE cell

\* the columns process_my_transaction reads
MyReadColumns == {"Transaction ID", "Posting Date", "Effective Date", "Transaction Type",
                  "Amount", "Check Number", "Reference Number", "Description",
                  "Transaction Category", "Type", "Balance", "Memo", "Extended Description"}

\* TransactionProcessor.process_my_transaction: a missing column is a
\* KeyError, a NaN description a TypeError in re.search
process_my_transaction(columns, row, mappings) ==
    IF ~(MyReadColumns \subseteq columns) \/ row.description = NaN THEN Raised
    ELSE Returned([transaction_id |-> Bind(row.transaction_id),
                   posting_date |-> row.posting_date,
                   transaction_type |-> row.transaction_type,
                   amount |-> row.amount,
                   reference_number |-> Bind(row.reference_number),
                   description |-> row.description,
                   transaction_category |->
                       IF Truthy(categorize_description(mappings, row.description))
                       THEN categorize_description(mappings, row.description)
                       ELSE row.transaction_category,
                   account_owner |-> "Connor"])

\* the sign normalization comparing the type cell as it is written
PartnerAmount_CaseSensitive(amountCell, typeCell) ==
    LET amount == ParseAmount(amountCell)
    IN IF typeCell = <<"d", "e", "b", "i", "t">> THEN fneg(fabs(amount))
       ELSE IF typeCell = <<"c", "r", "e", "d", "i", "t">> THEN fabs(amount)
       ELSE amount

\* the amount of process_partner_transaction (lines 43-47)
PartnerAmount(amountCell, typeCell) ==
    LET amount == ParseAmount(amountCell)
    IN IF Lower(typeCell) = <<"d", "e", "b", "i", "t">> THEN fneg(fabs(amount))
       ELSE IF Lower(typeCell) = <<"c", "r", "e", "d", "i", "t">> THEN fabs(amount)
       ELSE amount

\* the unique_id of process_partner_transaction (line 41)
PartnerUniqueId(seed, t, descriptionCell) ==
    <<"P_", Ymd8(t), Abs(hash(seed, str(descriptionCell)))>>

\* the Partner adapter with the amount cell hashed into the identity
process_partner_transaction_AmountInId(seed, row, mappings) ==
    LET t == strptime_mdy(row.transaction_date)
        id == PartnerUniqueId(seed, t, str(row.description) \o str(row.amount))
    IN IF \/ ~t.ok
          \/ ParseAmount(row.amount).k = "err"
          \/ row.transaction_type = NaN
          \/ ParseAmount(row.balance).k = "err"
       THEN Raised
       ELSE Returned([transaction_id |-> id,
                      posting_date |-> <<t.m, t.d, t.y>>,
                      transaction_type |-> row.transaction_type,
                      amount |-> PartnerAmount(row.amount, row.transaction_type),
                      reference_number |-> id,
                      description |-> str(row.description),
                      transaction_category |->
                          categorize_description(mappings, str(row.description)),
                      account_owner |-> "Partner"])

\* TransactionProcessor.process_partner_transaction
process_partner_transaction(seed, row, mappings) ==
    LET t == strptime_mdy(row.transaction_date)
    IN IF \/ ~t.ok
          \/ ParseAmount(row.amount).k = "err"
          \/ row.transaction_type = NaN
          \/ ParseAmount(row.balance).k = "err"
       THEN Raised
       ELSE Returned([transaction_id |-> PartnerUniqueId(seed, t, row.description),
                      posting_date |-> <<t.m, t.d, t.y>>,
                      transaction_type |-> row.transaction_type,
                      amount |-> PartnerAmount(row.amount, row.transaction_type),
                      reference_number |-> PartnerUniqueId(seed, t, row.description),
                      description |-> str(row.description),
                      transaction_category |->
                          categorize_description(mappings, str(row.description)),
                      account_owner |-> "Partner"])

\* the amount derivation with the Credit column looked at first
CardAmount_CreditFirst(debit, credit) ==
    IF notna(credit) THEN fabs(ParseAmount(credit))
    ELSE IF notna(debit) THEN fneg(fabs(ParseAmount(debit)))
    ELSE Num(0)

\* the amount of process_card_transaction (lines 83-87)
CardAmount(debit, credit) ==
    IF notna(debit) THEN fneg(fabs(ParseAmount(debit)))
    ELSE IF notna(credit) THEN fabs(ParseAmount(credit))
    ELSE Num(0)

\* the transaction_type of process_card_transaction (line 89)
CardTransactionType(amount) == IF fltzero(amount) THEN "Debit" ELSE "Credit"

\* does the amount derivation raise (float() of a text that is no number)
CardAmountRaises(debit, credit) ==
    IF notna(debit) THEN ParseAmount(debit).k = "err"
    ELSE IF notna(credit) THEN ParseAmount(credit).k = "err"
    ELSE FALSE

\* the unique_id of process_card_transaction (line 80)
CardUniqueId(seed, t, descriptionCell) ==
    <<"C_", Ymd8(t), Abs(hash(seed, str(descriptionCell)))>>

\* TransactionProcessor.process_card_transaction
process_card_transaction(seed, row, mappings) ==
    LET t == strptime_ymd(row.transaction_date)
        p == strptime_ymd(row.posted_date)
    IN IF ~t.ok \/ ~p.ok \/ CardAmountRaises(row.debit, row.credit) THEN Raised
       ELSE Returned([transaction_id |-> CardUniqueId(seed, t, row.description),
                      posting_date |-> <<p.y, p.m, p.d>>,
                      transaction_type |-> CardTransactionType(CardAmount(row.debit, row.credit)),
                      amount |-> CardAmount(row.debit, row.credit),
                      reference_number |->
                          <<"CARD_", row.card_no>> \o CardUniqueId(seed, t, row.description),
                      description |-> str(row.description),
                      transaction_category |->
                          categorize_description(mappings, str(row.description)),
                      account_owner |-> "Card"])

\* ------------------------------------------------------------------------
\* Inputs: the CSV folders, the environment of a run
\* ------------------------------------------------------------------------
T(a, b) == <<a, b>>

Cafe == <<"C", "a", "f", "e">>

Gas == <<"g", "a", "s">>

Rent == <<"R", "E", "N", "T">>

\* rows of Primary exports
MyRowPool ==
    { [transaction_id |-> T("T", "1"), reference_number |-> T("R", "1"), description |-> Cafe,
       transaction_category |-> "Dining", posting_date |-> <<1, 5, 2024>>,
       transaction_type |-> <<"D", "e", "b", "i", "t">>, amount |-> Num(-500)],
      [transaction_id |-> NaN, reference_number |-> T("R", "1"), description |-> Gas,
       transaction_category |-> PyNone, posting_date |-> <<1, 7, 2024>>,
       transaction_type |-> <<"D", "e", "b", "i", "t">>, amount |-> Num(-3000)],
      [transaction_id |-> T("T", "1"), reference_number |-> NaN, description |-> Gas,
       transaction_category |-> "Fuel", posting_date |-> <<1, 8, 2024>>,
       transaction_type |-> <<"C", "r", "e", "d", "i", "t">>, amount |-> Num(1200)] }

\* rows of Partner exports
PartnerRowPool ==
    { [transaction_date |-> <<1, 5, 24>>, description |-> Cafe,
       transaction_type |-> <<"D", "e", "b", "i", "t">>,
       amount |-> <<"2", "5", ".", "0", "0">>, balance |-> <<"1", ",", "0", "0", "0">>],
      [transaction_date |-> <<1, 5, 24>>, description |-> Cafe,
       transaction_type |-> <<"d", "e", "b", "i", "t">>,
       amount |-> <<"4", "0">>, balance |-> <<"9", "6", "0">>],
      [transaction_date |-> <<2, 30, 24>>, description |-> Rent,
       transaction_type |-> <<"C", "R", "E", "D", "I", "T">>,
       amount |-> <<"-", "5", "0">>, balance |-> <<"9", "1", "0">>] }

\* rows of Card exports
CardRowPool ==
    { [transaction_date |-> <<2024, 1, 5>>, posted_date |-> <<2024, 1, 6>>, card_no |-> 1,
       description |-> Gas, debit |-> <<"2", "5", ".", "0", "0">>, credit |-> NaN],
      [transaction_date |-> <<2024, 1, 5>>, posted_date |-> <<2024, 1, 7>>, card_no |-> 2,
       description |-> Gas, debit |-> NaN, credit |-> <<"1", "0">>] }

KindOrder == <<"my", "partner", "card">>

Kinds == {"my", "partner", "card"}

RowPool(kind) ==
    IF kind = "my" THEN MyRowPool ELSE IF kind = "partner" THEN PartnerRowPool ELSE CardRowPool

\* required_columns of process_csv
required_columns(kind) ==
    IF kind = "partner"
    THEN {"Account Number", "Transaction Description", "Transaction Date",
          "Transaction Type", "Transaction Amount", "Balance"}
    ELSE IF kind = "card"
    THEN {"Transaction Date", "Posted Date", "Card No.", "Description",
          "Category", "Debit", "Credit"}
    ELSE {"Transaction ID", "Posting Date", "Effective Date", "Transaction Type",
          "Amount", "Description"}

\* the header of a complete export of the kind
FullColumns(kind) == IF kind = "my" THEN MyReadColumns ELSE required_columns(kind)

\* headers a file of the kind may have: complete, or lacking one column
ColumnSets(kind) ==
    IF kind = "my"
    THEN {MyReadColumns, MyReadColumns \ {"Amount"}, MyReadColumns \ {"Reference Number"}}
    ELSE IF kind = "partner"
    THEN {required_columns(kind), required_columns(kind) \ {"Balance"}}
    ELSE {required_columns(kind), required_columns(kind) \ {"Debit", "Credit"}}

SeqsUpTo(S, n) == UNION { [1..k -> S] : k \in 0..n }

\* the files a folder of the kind may hold: a file that is no .csv, and
\* .csv files with a header and rows
FilePool(kind) ==
    { [csv |-> FALSE, columns |-> FullColumns(kind), rows |-> <<>>] }
    \cup { [csv |-> TRUE, columns |-> FullColumns(kind), rows |-> rs] :
              rs \in SeqsUpTo(RowPool(kind), MaxRows) }
    \cup { [csv |-> TRUE, columns |-> cs,
            rows |-> <<CHOOSE r \in RowPool(kind) : TRUE>>] :
              cs \in ColumnSets(kind) \ {FullColumns(kind)} }

NoFolders == [k \in Kinds |-> <<>>]

\* a .csv file whose header is complete
WellFormed(k, f) == f.csv /\ f.columns = FullColumns(k)

\* number of rows in the well-formed files of a folder
RECURSIVE RowCount(_, _)
RowCount(k, fs) ==
    IF fs = <<>> THEN 0
    ELSE (IF WellFormed(k, Head(fs)) THEN Len(Head(fs).rows) ELSE 0) + RowCount(k, Tail(fs))

\* how MaxFiles files in all may spread over the three folders; the
\* well-formed files hold MaxRows rows in all
FileCounts ==
    { n \in [Kinds -> 0..MaxFiles] : n["my"] + n["partner"] + n["card"] <= MaxFiles }

\* the environment of the driver: the database, transaction_categories.json,
\* the folders named by MY_PATH, BBY_PATH, CARD_PATH, and PYTHONHASHSEED
\* (unset, the default: every process draws a fresh hash seed; set: every
\* process has the same seed)
Environments ==
    [db : {"ok", "connect_fails", "create_fails"},
     category_file : {"ok", "missing", "malformed"},
     folder_exists : [Kinds -> BOOLEAN],
     hashseed : {"random", "fixed"}]

\* the hash seed of the n-th process
SeedOf(e, n) == IF e.hashseed = "fixed" THEN 0 ELSE n - 1

\* the category mapping of transaction_categories.json, in file order
category_mappings ==
    << [pattern |-> <<"c", "a", "f">>, category |-> "Dining"],
       [pattern |-> <<"a">>, category |-> "Misc"] >>

\* ------------------------------------------------------------------------
\* State
\* ------------------------------------------------------------------------
VARIABLES
    env,               \* the environment of the driver
    folders,           \* the files of the three source folders
    listed,            \* have the folders been read yet
    table_exists,      \* the transactions table has been created
    durable,           \* the committed rows of the transactions table
    table,             \* the rows the open connection sees
    pc,                \* position of the driver
    runs,              \* number of driver processes started
    seed,              \* hash seed of the running process
    kindIdx,           \* index in KindOrder of the folder being processed
    fileIdx,           \* index of the file being processed
    rowIdx,            \* index of the row being processed
    processed_data,    \* the record between existence check and insert
    new_records,       \* process_csv counter
    duplicate_records, \* process_csv counter
    log,               \* what the run has logged
    store_ops,         \* the store operations the run has performed
    examined,          \* rows whose existence check the run has performed
    counted_new,       \* records the run has counted as new
    run_new,           \* sum of new_records over the files of the run
    prev,              \* how the previous run ended
    call               \* a pure function under check: input and result

vars == <<env, folders, listed, table_exists, durable, table, pc, runs, seed, kindIdx,
          fileIdx, rowIdx, processed_data, new_records, duplicate_records, log,
          store_ops, examined, counted_new, run_new, prev, call>>

NoRecord == [transaction_id |-> NULL]

NoCall == [fn |-> "none"]

NoPrev == [pc |-> "none", table |-> <<>>, run_new |-> 0, seed |-> 0]

Terminal == {"done", "exited", "crashed", "interrupted"}

LogEntry(ev, k, f, r, info) == [ev |-> ev, kind |-> k, file |-> f, row |-> r, info |-> info]

kind == KindOrder[kindIdx]

file == folders[kind][fileIdx]

\* state of a process that has just started
Fresh ==
    /\ pc = "start"
    /\ kindIdx = 1 /\ fileIdx = 1 /\ rowIdx = 1
    /\ processed_data = NoRecord
    /\ new_records = 0 /\ duplicate_records = 0
    /\ log = <<>> /\ store_ops = <<>>
    /\ examined = {} /\ counted_new = {} /\ run_new = 0

Init ==
    /\ env \in Environments
    /\ folders = NoFolders /\ listed = FALSE
    /\ table_exists = FALSE
    /\ durable = <<>> /\ table = <<>>
    /\ runs = 1
    /\ seed = SeedOf(env, 1)
    /\ Fresh
    /\ prev = NoPrev
    /\ call = NoCall

\* ------------------------------------------------------------------------
\* Transaction Store: the table of load_transactions.py, whose only
\* constraint is transaction_id TEXT PRIMARY KEY (NULLs are distinct)
\* ------------------------------------------------------------------------
\* SELECT 1 FROM transactions WHERE transaction_id = ? AND reference_number = ?
\* (a comparison with NULL is never true)
Exists(tbl, tid, ref) ==
    /\ tid # NULL /\ ref # NULL
    /\ \E i \in 1..Len(tbl) :
          tbl[i].transaction_id = tid /\ tbl[i].reference_number = ref

\* does the INSERT violate the PRIMARY KEY of transaction_id
PrimaryKeyViolation(tbl, rec) ==
    /\ rec.transaction_id # NULL
    /\ \E i \in 1..Len(tbl) : tbl[i].transaction_id = rec.transaction_id

\* SELECT COUNT(*) FROM transactions WHERE account_owner = ?
CountOwner(tbl, owner) == Cardinality({ i \in 1..Len(tbl) : tbl[i].account_owner = owner })

\* ------------------------------------------------------------------------
\* Ingestion Driver: load_transactions.py
\* ------------------------------------------------------------------------
driverTail == <<kindIdx, fileIdx, rowIdx, processed_data, new_records, duplicate_records,
                examined, counted_new, run_new>>

\* lines 26-33: sqlite3.connect
Connect ==
    /\ pc = "start"
    /\ IF env.db = "connect_fails"
       THEN /\ pc' = "exited"
            /\ log' = Append(log, LogEntry("connect_failed", "", 0, 0, {}))
            /\ store_ops' = store_ops
       ELSE /\ pc' = "schema"
            /\ log' = log
            /\ store_ops' = Append(store_ops, "connect")
    /\ UNCHANGED <<env, folders, listed, table_exists, durable, table, runs, seed, prev, call>>
    /\ UNCHANGED driverTail

\* lines 35-59: CREATE TABLE IF NOT EXISTS transactions, commit
EnsureSchema ==
    /\ pc = "schema"
    /\ store_ops' = Append(store_ops, "create_table")
    /\ IF env.db = "create_fails"
       THEN /\ pc' = "exited"
            /\ log' = Append(log, LogEntry("create_failed", "", 0, 0, {}))
            /\ table_exists' = table_exists
       ELSE /\ pc' = "mappings"
            /\ log' = log
            /\ table_exists' = TRUE
    /\ UNCHANGED <<env, folders, listed, durable, table, runs, seed, prev, call>>
    /\ UNCHANGED driverTail

\* the category file handler without its exit(): the error is logged and
\* the run goes on
LoadMappings_NoExit ==
    /\ pc = "mappings"
    /\ IF env.category_file = "missing"
       THEN /\ pc' = "folders"
            /\ log' = Append(log, LogEntry("category_file_not_found", "", 0, 0, {}))
       ELSE IF env.category_file = "malformed"
       THEN /\ pc' = "crashed"
            /\ log' = Append(log, LogEntry("traceback", "", 0, 0, {}))
       ELSE /\ pc' = "folders"
            /\ log' = log
    /\ UNCHANGED <<env, folders, listed, table_exists, durable, table, runs, seed,
                   store_ops, prev, call>>
    /\ UNCHANGED driverTail

\* lines 61-72: json.load of the category file; FileNotFoundError exits, a
\* JSONDecodeError is not caught
LoadMappings ==
    /\ pc = "mappings"
    /\ IF env.category_file = "missing"
       THEN /\ pc' = "exited"
            /\ log' = Append(log, LogEntry("category_file_not_found", "", 0, 0, {}))
       ELSE IF env.category_file = "malformed"
       THEN /\ pc' = "crashed"
            /\ log' = Append(log, LogEntry("traceback", "", 0, 0, {}))
       ELSE /\ pc' = "folders"
            /\ log' = log
    /\ UNCHANGED <<env, folders, listed, table_exists, durable, table, runs, seed,
                   store_ops, prev, call>>
    /\ UNCHANGED driverTail

\* lines 79-88: the first folder that does not exist ends the run
MissingFolders == { i \in 1..3 : ~env.folder_exists[KindOrder[i]] }

FirstMissingFolder == CHOOSE i \in MissingFolders : \A j \in MissingFolders : i <= j

\* lines 79-91: verify the folders, then read them; the folders' contents
\* are fixed the first time a run reads them
VerifyFolders ==
    /\ pc = "folders"
    /\ IF MissingFolders # {}
       THEN /\ pc' = "exited"
            /\ log' = Append(log, LogEntry("folder_not_found", KindOrder[FirstMissingFolder],
                                           0, 0, {}))
            /\ UNCHANGED <<folders, listed>>
       ELSE /\ pc' = "files"
            /\ log' = log
            /\ listed' = TRUE
            /\ IF listed THEN folders' = folders
               ELSE \E n \in FileCounts :
                        \E a \in [1..n["my"] -> FilePool("my")],
                           b \in [1..n["partner"] -> FilePool("partner")],
                           c \in [1..n["card"] -> FilePool("card")] :
                            /\ RowCount("my", a) + RowCount("partner", b)
                                  + RowCount("card", c) <= MaxRows
                            /\ folders' = [k \in Kinds |->
                                          IF k = "my" THEN a ELSE IF k = "partner" THEN b ELSE c]
    /\ UNCHANGED <<env, table_exists, durable, table, runs, seed, store_ops, prev, call>>
    /\ UNCHANGED driverTail

\* lines 93, 99-101, 106-108: the file loop of a folder is over, the next
\* folder is listed
ListNextFolder ==
    /\ pc = "files"
    /\ fileIdx > Len(folders[kind])
    /\ kindIdx < 3
    /\ kindIdx' = kindIdx + 1
    /\ fileIdx' = 1
    /\ UNCHANGED <<env, folders, listed, table_exists, durable, table, pc, runs, seed, rowIdx,
                   processed_data, new_records, duplicate_records, log, store_ops, examined,
                   counted_new, run_new, prev, call>>

\* lines 94, 102, 109: a name that does not end in .csv is passed over
SkipNonCsv ==
    /\ pc = "files"
    /\ fileIdx <= Len(folders[kind])
    /\ ~file.csv
    /\ fileIdx' = fileIdx + 1
    /\ UNCHANGED <<env, folders, listed, table_exists, durable, table, pc, runs, seed, kindIdx,
                   rowIdx, processed_data, new_records, duplicate_records, log, store_ops,
                   examined, counted_new, run_new, prev, call>>

\* process_csv without the check of the required columns
missing_columns_unchecked(k, f) == {}

\* process_csv lines 140-141
missing_columns(k, f) == required_columns(k) \ f.columns

\* process_csv lines 139-144: a required column is missing, the file is
\* logged and left
SkipFile ==
    /\ pc = "files"
    /\ fileIdx <= Len(folders[kind])
    /\ file.csv
    /\ missing_columns(kind, file) # {}
    /\ log' = Append(log, LogEntry("missing_columns", kind, fileIdx, 0,
                                   missing_columns(kind, file)))
    /\ fileIdx' = fileIdx + 1
    /\ UNCHANGED <<env, folders, listed, table_exists, durable, table, pc, runs, seed, kindIdx,
                   rowIdx, processed_data, new_records, duplicate_records, store_ops,
                   examined, counted_new, run_new, prev, call>>

\* process_csv lines 146-149: the columns are there, the row loop starts
BeginRows ==
    /\ pc = "files"
    /\ fileIdx <= Len(folders[kind])
    /\ file.csv
    /\ missing_columns(kind, file) = {}
    /\ new_records' = 0
    /\ duplicate_records' = 0
    /\ rowIdx' = 1
    /\ pc' = "rows"
    /\ UNCHANGED <<env, folders, listed, table_exists, durable, table, runs, seed, kindIdx,
                   fileIdx, processed_data, log, store_ops, examined, counted_new, run_new,
                   prev, call>>

\* process_csv lines 150-155: the adapter of the source kind
Adapter(k, sd, columns, row) ==
    IF k = "my" THEN process_my_transaction(columns, row, category_mappings)
    ELSE IF k = "partner" THEN process_partner_transaction(sd, row, category_mappings)
    ELSE process_card_transaction(sd, row, category_mappings)

\* process_csv lines 149-162, 176-177, 181-183: adapter, then the existence
\* check; an exception of the adapter leaves process_csv and the driver
ExamineRow ==
    /\ pc = "rows"
    /\ rowIdx <= Len(file.rows)
    /\ LET res == Adapter(kind, seed, file.columns, file.rows[rowIdx])
       IN IF ~res.ok
          THEN /\ log' = Append(log, LogEntry("row_error", kind, fileIdx, rowIdx, {}))
               /\ pc' = "crashed"
               /\ UNCHANGED <<rowIdx, processed_data, duplicate_records, store_ops, examined>>
          ELSE /\ store_ops' = Append(store_ops, "select")
               /\ examined' = examined \cup {<<kindIdx, fileIdx, rowIdx>>}
               /\ log' = log
               /\ IF Exists(table, res.rec.transaction_id, res.rec.reference_number)
                  THEN /\ duplicate_records' = duplicate_records + 1
                       /\ rowIdx' = rowIdx + 1
                       /\ UNCHANGED <<pc, processed_data>>
                  ELSE /\ processed_data' = res.rec
                       /\ pc' = "insert"
                       /\ UNCHANGED <<rowIdx, duplicate_records>>
    /\ UNCHANGED <<env, folders, listed, table_exists, durable, table, runs, seed, kindIdx,
                   fileIdx, new_records, counted_new, run_new, prev, call>>

\* the INSERT without its except clause: the sqlite3.Error leaves
\* process_csv and the driver
InsertRow_Raises ==
    /\ pc = "insert"
    /\ store_ops' = Append(store_ops, "insert")
    /\ IF PrimaryKeyViolation(table, processed_data)
       THEN /\ log' = Append(log, LogEntry("file_failed", kind, fileIdx, rowIdx, {}))
            /\ pc' = "crashed"
            /\ UNCHANGED <<table, rowIdx, processed_data>>
       ELSE /\ table' = Append(table, processed_data)
            /\ pc' = "commit"
            /\ UNCHANGED <<log, rowIdx, processed_data>>
    /\ UNCHANGED <<env, folders, listed, table_exists, durable, runs, seed, kindIdx, fileIdx,
                   new_records, duplicate_records, examined, counted_new, run_new, prev, call>>

\* process_csv lines 163-171, 174-175: the INSERT; an sqlite3.Error is
\* logged and the loop goes on
InsertRow ==
    /\ pc = "insert"
    /\ store_ops' = Append(store_ops, "insert")
    /\ IF PrimaryKeyViolation(table, processed_data)
       THEN /\ log' = Append(log, LogEntry("insert_error", kind, fileIdx, rowIdx, {}))
            /\ rowIdx' = rowIdx + 1
            /\ processed_data' = NoRecord
            /\ pc' = "rows"
            /\ table' = table
       ELSE /\ table' = Append(table, processed_data)
            /\ pc' = "commit"
            /\ UNCHANGED <<log, rowIdx, processed_data>>
    /\ UNCHANGED <<env, folders, listed, table_exists, durable, runs, seed, kindIdx, fileIdx,
                   new_records, duplicate_records, examined, counted_new, run_new, prev, call>>

\* the record is counted as new without a commit
CommitRow_NoCommit ==
    /\ pc = "commit"
    /\ new_records' = new_records + 1
    /\ run_new' = run_new + 1
    /\ counted_new' = counted_new \cup {processed_data}
    /\ processed_data' = NoRecord
    /\ rowIdx' = rowIdx + 1
    /\ pc' = "rows"
    /\ UNCHANGED <<env, folders, listed, table_exists, durable, table, runs, seed, kindIdx,
                   fileIdx, duplicate_records, log, store_ops, examined, prev, call>>

\* process_csv lines 172-173: commit, then count the record as new
CommitRow ==
    /\ pc = "commit"
    /\ durable' = table
    /\ new_records' = new_records + 1
    /\ run_new' = run_new + 1
    /\ counted_new' = counted_new \cup {processed_data}
    /\ processed_data' = NoRecord
    /\ rowIdx' = rowIdx + 1
    /\ pc' = "rows"
    /\ UNCHANGED <<env, folders, listed, table_exists, table, runs, seed, kindIdx, fileIdx,
                   duplicate_records, log, store_ops, examined, prev, call>>

\* process_csv line 179: the counters of the file are logged
FileDone ==
    /\ pc = "rows"
    /\ rowIdx > Len(file.rows)
    /\ log' = Append(log, LogEntry("completed", kind, fileIdx, 0,
                                   <<new_records, duplicate_records>>))
    /\ fileIdx' = fileIdx + 1
    /\ pc' = "files"
    /\ UNCHANGED <<env, folders, listed, table_exists, durable, table, runs, seed, kindIdx,
                   rowIdx, processed_data, new_records, duplicate_records, store_ops,
                   examined, counted_new, run_new, prev, call>>

\* lines 113-131: the per-owner totals are read back and logged, the
\* connection is closed
VerifyResults ==
    /\ pc = "files"
    /\ kindIdx = 3
    /\ fileIdx > Len(folders[kind])
    /\ store_ops' = Append(store_ops, "count")
    /\ log' = Append(log, LogEntry("totals", "", 0, 0,
                                   <<CountOwner(table, "Partner"), CountOwner(table, "Connor"),
                                     CountOwner(table, "Card")>>))
    /\ pc' = "done"
    /\ UNCHANGED <<env, folders, listed, table_exists, durable, table, runs, seed, kindIdx,
                   fileIdx, rowIdx, processed_data, new_records, duplicate_records, examined,
                   counted_new, run_new, prev, call>>

\* the driver is started again after a run that ended by itself, as a new
\* process, on the same database and folders
StartRun ==
    /\ pc \in Terminal \ {"interrupted"}
    /\ runs < MaxRuns
    /\ runs' = runs + 1
    /\ seed' = SeedOf(env, runs + 1)
    /\ table' = durable
    /\ prev' = [pc |-> pc, table |-> durable, run_new |-> run_new, seed |-> seed]
    /\ pc' = "start"
    /\ kindIdx' = 1 /\ fileIdx' = 1 /\ rowIdx' = 1
    /\ processed_data' = NoRecord
    /\ new_records' = 0 /\ duplicate_records' = 0
    /\ log' = <<>> /\ store_ops' = <<>>
    /\ examined' = {} /\ counted_new' = {} /\ run_new' = 0
    /\ UNCHANGED <<env, folders, listed, table_exists, durable, call>>

\* the process is killed: what the connection has not committed is lost
Interrupt ==
    /\ pc \notin Terminal
    /\ pc' = "interrupted"
    /\ table' = durable
    /\ UNCHANGED <<env, folders, listed, table_exists, durable, runs, seed, kindIdx, fileIdx,
                   rowIdx, processed_data, new_records, duplicate_records, log, store_ops,
                   examined, counted_new, run_new, prev, call>>

Next ==
    \/ Connect
    \/ EnsureSchema
    \/ LoadMappings
    \/ VerifyFolders
    \/ ListNextFolder
    \/ SkipNonCsv
    \/ SkipFile
    \/ BeginRows
    \/ ExamineRow
    \/ InsertRow
    \/ CommitRow
    \/ FileDone
    \/ VerifyResults
    \/ StartRun

Spec == Init /\ [][Next]_vars

NextInterrupt == Next \/ Interrupt

SpecInterrupt == Init /\ [][NextInterrupt]_vars

\* ------------------------------------------------------------------------
\* The rule engine and the adapters' amount derivations on their own:
\* the inputs are drawn in the initial state, one step applies the function
\* ------------------------------------------------------------------------
Diner == <<"D", "i", "n", "e", "r">>

DescriptionPool == {Cafe, Gas, Rent, Diner, <<>>}

PatternPool == {<<"c", "a", "f">>, <<"a">>, <<"R", ".", "n">>, <<"s", "t">>}

MappingEntries == [pattern : PatternPool, category : {"Dining", "Misc"}]

\* ordered mappings of at most MaxMappings entries; the keys of a JSON
\* object are distinct
MappingPool ==
    { m \in SeqsUpTo(MappingEntries, MaxMappings) :
        \A i, j \in 1..Len(m) : i # j => m[i].pattern # m[j].pattern }

\* texts of numbers, each with the number it spells (in hundredths)
NumberCells ==
    { [text |-> <<"2", "5", ".", "0", "0">>, value |-> 2500],
      [text |-> <<"-", "2", "5">>, value |-> -2500],
      [text |-> <<"0">>, value |-> 0],
      [text |-> <<"1", ",", "0", "0", "0">>, value |-> 100000],
      [text |-> <<"1", "0", ".", "5">>, value |-> 1050],
      [text |-> <<"-", "1", ",", "2", "3", "4", ".", "5", "0">>, value |-> -123450] }

\* a Debit or Credit cell: empty, or the text of a number
AmountCells == {[text |-> NaN, value |-> 0]} \cup NumberCells

\* Transaction Type cells, each with what it indicates
TypeCells ==
    { [text |-> <<"d", "e", "b", "i", "t">>, means |-> "debit"],
      [text |-> <<"D", "e", "b", "i", "t">>, means |-> "debit"],
      [text |-> <<"D", "E", "B", "I", "T">>, means |-> "debit"],
      [text |-> <<"c", "r", "e", "d", "i", "t">>, means |-> "credit"],
      [text |-> <<"C", "r", "e", "d", "i", "t">>, means |-> "credit"],
      [text |-> <<"C", "R", "E", "D", "I", "T">>, means |-> "credit"],
      [text |-> <<"F", "e", "e">>, means |-> "other"] }

Calls ==
    [fn : {"categorize", "backend_categorize"}, mappings : MappingPool,
     description : DescriptionPool, done : {FALSE}]
    \cup [fn : {"card"}, debit : AmountCells, credit : AmountCells, done : {FALSE}]
    \cup [fn : {"partner"}, amount : NumberCells, type : TypeCells, done : {FALSE}]
    \cup [fn : {"my"}, mappings : MappingPool, description : DescriptionPool,
          category : {"Fuel", PyNone}, done : {FALSE}]

InitFunctions ==
    /\ env = [db |-> "ok", category_file |-> "ok", folder_exists |-> [k \in Kinds |-> TRUE],
              hashseed |-> "fixed"]
    /\ folders = NoFolders /\ listed = FALSE
    /\ table_exists = FALSE
    /\ durable = <<>> /\ table = <<>>
    /\ runs = 1
    /\ seed = 0
    /\ pc = "function"
    /\ kindIdx = 1 /\ fileIdx = 1 /\ rowIdx = 1
    /\ processed_data = NoRecord
    /\ new_records = 0 /\ duplicate_records = 0
    /\ log = <<>> /\ store_ops = <<>>
    /\ examined = {} /\ counted_new = {} /\ run_new = 0
    /\ prev = NoPrev
    /\ call \in Calls

driverVars == <<env, folders, listed, table_exists, durable, table, pc, runs, seed, kindIdx,
                fileIdx, rowIdx, processed_data, new_records, duplicate_records, log,
                store_ops, examined, counted_new, run_new, prev>>

\* TransactionProcessor.categorize_description is called
Categorize ==
    /\ call.fn = "categorize" /\ ~call.done
    /\ call' = [fn |-> call.fn, mappings |-> call.mappings, description |-> call.description,
                done |-> TRUE,
                ret |-> categorize_description(call.mappings, call.description)]
    /\ UNCHANGED driverVars

\* categorize_description of backend.py is called
BackendCategorize ==
    /\ call.fn = "backend_categorize" /\ ~call.done
    /\ call' = [fn |-> call.fn, mappings |-> call.mappings, description |-> call.description,
                done |-> TRUE,
                ret |-> backend_categorize_description(call.mappings, call.description)]
    /\ UNCHANGED driverVars

\* process_card_transaction is called on a row with these Debit and Credit
\* cells
CardCall ==
    /\ call.fn = "card" /\ ~call.done
    /\ call' = [fn |-> call.fn, debit |-> call.debit, credit |-> call.credit, done |-> TRUE,
                ret |-> process_card_transaction(seed,
                            [transaction_date |-> <<2024, 1, 5>>, posted_date |-> <<2024, 1, 6>>,
                             card_no |-> 1, description |-> Gas,
                             debit |-> call.debit.text, credit |-> call.credit.text],
                            category_mappings)]
    /\ UNCHANGED driverVars

\* process_partner_transaction is called on a row with these Transaction
\* Amount and Transaction Type cells
PartnerCall ==
    /\ call.fn = "partner" /\ ~call.done
    /\ call' = [fn |-> call.fn, amount |-> call.amount, type |-> call.type, done |-> TRUE,
                ret |-> process_partner_transaction(seed,
                            [transaction_date |-> <<1, 5, 24>>, description |-> Cafe,
                             transaction_type |-> call.type.text,
                             amount |-> call.amount.text, balance |-> <<"9", "6", "0">>],
                            category_mappings)]
    /\ UNCHANGED driverVars

\* process_my_transaction is called on a row with this Description and
\* this Transaction Category, under these mappings
MyCall ==
    /\ call.fn = "my" /\ ~call.done
    /\ call' = [fn |-> call.fn, mappings |-> call.mappings, description |-> call.description,
                category |-> call.category, done |-> TRUE,
                ret |-> process_my_transaction(MyReadColumns,
                            [transaction_id |-> T("T", "1"), reference_number |-> T("R", "1"),
                             description |-> call.description,
                             transaction_category |-> call.category,
                             posting_date |-> <<1, 5, 2024>>,
                             transaction_type |-> <<"D", "e", "b", "i", "t">>,
                             amount |-> Num(-500)],
                            call.mappings)]
    /\ UNCHANGED driverVars

NextFunctions == Categorize \/ BackendCategorize \/ CardCall \/ PartnerCall \/ MyCall

SpecFunctions == InitFunctions /\ [][NextFunctions]_vars

\* ------------------------------------------------------------------------
\* Properties
\* ------------------------------------------------------------------------
Range(f) == { f[i] : i \in DOMAIN f }

\* positions <<k, f>> of the files of the folders
FilePositions == { p \in (1..3) \X (1..MaxFiles + 1) : p[2] <= Len(folders[KindOrder[p[1]]]) }

FileAt(p) == folders[KindOrder[p[1]]][p[2]]

\* the file lacks a column its source kind requires
LacksRequired(p) ==
    /\ FileAt(p).csv
    /\ required_columns(KindOrder[p[1]]) \ FileAt(p).columns # {}

\* the file loop of the running process has gone past the file
Passed(p) ==
    /\ pc \in {"files", "rows", "insert", "commit", "done"}
    /\ \/ p[1] < kindIdx
       \/ p[1] = kindIdx /\ p[2] < fileIdx

Before(p, q) == p[1] < q[1] \/ (p[1] = q[1] /\ p[2] < q[2])

ConfigErrors == {"category_file_not_found", "traceback", "folder_not_found"}

\* C1: the transactions table never holds two rows with the same
\* transaction_id and the same reference_number
C1_Uniqueness ==
    \A i, j \in 1..Len(table) :
        i # j => ~(/\ table[i].transaction_id = table[j].transaction_id
                   /\ table[i].reference_number = table[j].reference_number)

\* C2: a second complete run over the same folders inserts no record and
\* leaves the table as the first run left it
C2_Idempotent ==
    (pc = "done" /\ prev.pc = "done") => (run_new = 0 /\ table = prev.table)

\* C3: a row whose adapter raises is logged and the run goes on with the
\* other rows and files: the run never ends on a row error
C3_RowIsolation ==
    \A i \in 1..Len(log) : log[i].ev = "row_error" => pc # "crashed"

\* C4: a file lacking a required column has none of its rows examined or
\* stored, its missing columns are logged, the run does not end on it, and
\* a run that completes has examined every row of every other .csv file
C4_FileIsolation ==
    /\ \A x \in examined : ~LacksRequired(<<x[1], x[2]>>)
    /\ Len(table) <= Len(prev.table) + Cardinality(examined)
    /\ \A p \in FilePositions :
          (Passed(p) /\ LacksRequired(p)) =>
              \E i \in 1..Len(log) :
                  /\ log[i].ev = "missing_columns"
                  /\ log[i].kind = KindOrder[p[1]] /\ log[i].file = p[2]
                  /\ log[i].info = required_columns(KindOrder[p[1]]) \ FileAt(p).columns
    /\ (log # <<>> /\ log[Len(log)].ev = "missing_columns") => pc \in {"files", "rows", "insert", "commit"}
    /\ pc = "done" =>
          \A p \in FilePositions :
              (FileAt(p).csv /\ ~LacksRequired(p)) =>
                  \A r \in 1..Len(FileAt(p).rows) : <<p[1], p[2], r>> \in examined

\* a run has completed in which a file lacking a required column was
\* skipped and a later file was ingested
C4_Witness ==
    /\ pc = "done"
    /\ \E p, q \in FilePositions :
          /\ LacksRequired(p) /\ Before(p, q)
          /\ FileAt(q).rows # <<>>
          /\ <<q[1], q[2], 1>> \in examined
          /\ Len(table) > Len(prev.table)

\* C5: an INSERT that fails is logged, leaves the table and the counter of
\* new records as they were, and the loop goes on to the next row of the file
C5_InsertErrorIsolated ==
    [][(pc = "insert" /\ PrimaryKeyViolation(table, processed_data)) =>
          /\ table' = table /\ durable' = durable
          /\ new_records' = new_records /\ run_new' = run_new
          /\ pc' = "rows" /\ rowIdx' = rowIdx + 1
          /\ fileIdx' = fileIdx /\ kindIdx' = kindIdx
          /\ log' = Append(log, LogEntry("insert_error", kind, fileIdx, rowIdx, {}))]_vars

\* an INSERT has failed and the next row of the same file has been examined
C5_Witness ==
    \E i \in 1..Len(log) :
        /\ log[i].ev = "insert_error"
        /\ \E x \in examined :
              /\ KindOrder[x[1]] = log[i].kind /\ x[2] = log[i].file
              /\ x[3] = log[i].row + 1

\* C6: at every point of a run, also when it is interrupted, every record
\* counted as new is in the committed table, and the connection holds at
\* most one uncommitted record
C6_Durability ==
    /\ \A r \in counted_new : r \in Range(durable)
    /\ Len(durable) <= Len(table) /\ Len(table) <= Len(durable) + 1
    /\ SubSeq(table, 1, Len(durable)) = durable

\* a run was interrupted between INSERT and commit, after it had counted
\* a record as new: the counted record is committed, the one in flight lost
C6_Witness ==
    /\ pc = "interrupted"
    /\ counted_new # {}
    /\ processed_data # NoRecord
    /\ processed_data \notin Range(durable)

\* the category the claim C7 describes
FirstMatchOrNone(mappings, description, ret) ==
    \/ \E i \in 1..Len(mappings) :
          /\ re_search(mappings[i].pattern, description)
          /\ \A j \in 1..(i - 1) : ~re_search(mappings[j].pattern, description)
          /\ ret = mappings[i].category
    \/ /\ \A i \in 1..Len(mappings) : ~re_search(mappings[i].pattern, description)
       /\ ret = PyNone

\* C7: classify returns the category of the first pattern, in mapping order,
\* that matches the description, and none when no pattern matches
C7_FirstMatchOrNone ==
    (call.fn = "categorize" /\ call.done) =>
        FirstMatchOrNone(call.mappings, call.description, call.ret)

\* C8: the Card amount is minus the absolute Debit when Debit is present,
\* else the absolute Credit when Credit is present, else 0; the transaction
\* type is "Debit" exactly when the amount is negative, else "Credit"
C8_CardAmount ==
    (call.fn = "card" /\ call.done) =>
        /\ call.ret.ok
        /\ LET rec == call.ret.rec
           IN /\ call.debit.text # NaN => rec.amount = Num(-Abs(call.debit.value))
              /\ (call.debit.text = NaN /\ call.credit.text # NaN) =>
                     rec.amount = Num(Abs(call.credit.value))
              /\ (call.debit.text = NaN /\ call.credit.text = NaN) => rec.amount = Num(0)
              /\ rec.transaction_type = (IF rec.amount.v < 0 THEN "Debit" ELSE "Credit")

\* a row with both cells present and a Debit of 0 came out as a "Credit"
C8_Witness ==
    /\ call.fn = "card" /\ call.done
    /\ call.debit.text # NaN /\ call.debit.value = 0
    /\ call.credit.text # NaN /\ call.credit.value > 0
    /\ call.ret.rec.transaction_type = "Credit"
    /\ call.ret.rec.amount = Num(0)

\* C9: the Partner amount is minus the absolute raw amount when the type
\* cell says debit in any letter case, plus the absolute raw amount when
\* it says credit
C9_PartnerSign ==
    (call.fn = "partner" /\ call.done) =>
        /\ call.ret.ok
        /\ call.type.means = "debit" => call.ret.rec.amount = Num(-Abs(call.amount.value))
        /\ call.type.means = "credit" => call.ret.rec.amount = Num(Abs(call.amount.value))

\* a negative raw amount of a "CREDIT" row came out positive
C9_Witness ==
    /\ call.fn = "partner" /\ call.done
    /\ call.type.text = <<"C", "R", "E", "D", "I", "T">>
    /\ call.amount.value < 0
    /\ call.ret.rec.amount.v > 0

\* C10 as stated: a run that ends on a configuration error has performed
\* no store operation
C10_NoStoreIO ==
    (\E i \in 1..Len(log) : log[i].ev \in ConfigErrors) => store_ops = <<>>

\* C10 amended: a configuration error ends the run at once, after the
\* connect and the idempotent schema creation and before any read of or
\* insert into the transactions table, whose rows are left as they were
C10_NoIngestionIO ==
    (\E i \in 1..Len(log) : log[i].ev \in ConfigErrors) =>
        /\ pc \in {"exited", "crashed"}
        /\ store_ops = <<"connect", "create_table">>
        /\ table = prev.table /\ durable = prev.table
        /\ examined = {}

\* a run has ended on a missing folder, after connect and schema creation
C10_Witness ==
    /\ pc = "exited"
    /\ log # <<>> /\ log[Len(log)].ev = "folder_not_found"
    /\ store_ops = <<"connect", "create_table">>

\* the run has got past its configuration: no connect, schema or
\* configuration error has ended it
PastStartup ==
    /\ pc \in {"files", "rows", "insert", "commit", "done", "crashed"}
    /\ \A i \in 1..Len(log) :
          log[i].ev \notin ConfigErrors \cup {"connect_failed", "create_failed"}

\* the per-file state of the file at p in the running process
FileState(p) ==
    IF \E i \in 1..Len(log) :
          log[i].ev = "completed" /\ log[i].kind = KindOrder[p[1]] /\ log[i].file = p[2]
    THEN "Done"
    ELSE IF \E i \in 1..Len(log) :
          log[i].ev = "missing_columns" /\ log[i].kind = KindOrder[p[1]] /\ log[i].file = p[2]
    THEN "Skipped"
    ELSE IF pc \in {"rows", "insert", "commit"} /\ p = <<kindIdx, fileIdx>>
    THEN "RowProcessing"
    ELSE "Pending"

\* C11: a run that has listed its folders ends only with the totals
\* report, every .csv file then being Done (counters logged) or Skipped
\* (missing columns logged), whatever the files hold
C11_ReachesReport ==
    (PastStartup /\ pc \in Terminal) =>
        /\ pc = "done"
        /\ log[Len(log)].ev = "totals"
        /\ \A p \in FilePositions : FileAt(p).csv => FileState(p) \in {"Done", "Skipped"}

\* the category C12 describes for a Primary row
PrimaryCategory(mappings, description, rowCategory, stored) ==
    \/ \E i \in 1..Len(mappings) :
          /\ re_search(mappings[i].pattern, description)
          /\ \A j \in 1..(i - 1) : ~re_search(mappings[j].pattern, description)
          /\ stored = mappings[i].category
    \/ /\ \A i \in 1..Len(mappings) : ~re_search(mappings[i].pattern, description)
       /\ stored = rowCategory

\* C12: the category stored for a Primary row is the rule engine's when a
\* pattern matches the description, the row's own Transaction Category
\* when none does
C12_PrimaryCategory ==
    (call.fn = "my" /\ call.done) =>
        /\ call.ret.ok
        /\ PrimaryCategory(call.mappings, call.description, call.category,
                           call.ret.rec.transaction_category)

\* no row of the table has the transaction_id and reference_number of rec
PairAbsent(tbl, rec) ==
    \A i \in 1..Len(tbl) :
        ~(/\ tbl[i].transaction_id = rec.transaction_id
          /\ tbl[i].reference_number = rec.reference_number)

\* C13: a record with a transaction_id and a reference_number whose pair is
\* not in the table is inserted, also when the table holds its
\* transaction_id with another reference_number
C13_PairIsSoleKey ==
    [][(/\ pc = "insert"
        /\ processed_data.transaction_id # NULL
        /\ processed_data.reference_number # NULL
        /\ PairAbsent(table, processed_data))
          => (table' = Append(table, processed_data) /\ pc' = "commit")]_vars

\* C14: no INSERT is attempted for a record without reference_number whose
\* transaction_id the table already holds without reference_number: the
\* existence check has counted it as a duplicate
C14_NullReferenceRecognised ==
    pc = "insert" =>
        ~(/\ processed_data.reference_number = NULL
          /\ \E i \in 1..Len(table) :
                /\ table[i].transaction_id = processed_data.transaction_id
                /\ table[i].reference_number = NULL)

\* C15: the counters logged when a file completes add up to the number of
\* rows of the file
C15_CountersAddUp ==
    \A i \in 1..Len(log) :
        log[i].ev = "completed" =>
            log[i].info[1] + log[i].info[2] = Len(folders[log[i].kind][log[i].file].rows)

\* rows of the Partner files the run processes (.csv files with the
\* required columns), in the order the run reads them
PartnerPositions ==
    { x \in (1..MaxFiles + 1) \X (1..MaxRows + 1) :
        /\ x[1] <= Len(folders["partner"])
        /\ folders["partner"][x[1]].csv
        /\ ~LacksRequired(<<2, x[1]>>)
        /\ x[2] <= Len(folders["partner"][x[1]].rows) }

PartnerRow(x) == folders["partner"][x[1]].rows[x[2]]

\* an earlier row of the Partner folder has the date and description of
\* the row at x
SameDateAndDescription(y, x) ==
    /\ Before(y, x)
    /\ PartnerRow(y).transaction_date = PartnerRow(x).transaction_date
    /\ PartnerRow(y).description = PartnerRow(x).description

\* the rows of Partner file f, among its first n, that repeat the date and
\* description of an earlier row of the folder
Repeats(f, n) ==
    { x \in PartnerPositions :
        x[1] = f /\ x[2] <= n /\ \E y \in PartnerPositions : SameDateAndDescription(y, x) }

\* the first row of the Partner folder with the date and description of x
FirstOf(x) ==
    CHOOSE y \in PartnerPositions :
        /\ y = x \/ SameDateAndDescription(y, x)
        /\ \A z \in PartnerPositions : ~SameDateAndDescription(z, y)

\* the identity C16 describes: "P_", the date as YYYYMMDD, the absolute
\* hash of the description
PartnerIdentity(x) ==
    <<"P_", (2000 + PartnerRow(x).transaction_date[3]) * 10000
              + PartnerRow(x).transaction_date[1] * 100 + PartnerRow(x).transaction_date[2],
      Abs(hash(seed, PartnerRow(x).description))>>

\* C16: of the Partner rows of a run with the same date and description,
\* whatever their amounts, one is stored under the identity made of date
\* and description, with the amount of the first, and every later one is
\* counted as a duplicate
C16_PartnerIdentity ==
    /\ \A x \in PartnerPositions :
          (<<2, x[1], x[2]>> \in examined /\ pc # "insert") =>
              /\ Cardinality({ i \in 1..Len(table) :
                                  table[i].transaction_id = PartnerIdentity(x) }) = 1
              /\ \A i \in 1..Len(table) :
                    table[i].transaction_id = PartnerIdentity(x) =>
                        /\ table[i].reference_number = PartnerIdentity(x)
                        /\ table[i].amount =
                              PartnerAmount(PartnerRow(FirstOf(x)).amount,
                                            PartnerRow(FirstOf(x)).transaction_type)
    /\ \A i \in 1..Len(log) :
          (log[i].ev = "completed" /\ log[i].kind = "partner") =>
              log[i].info[2] >= Cardinality(Repeats(log[i].file, MaxRows + 1))
    /\ (pc = "rows" /\ kind = "partner") =>
          duplicate_records >= Cardinality(Repeats(fileIdx, rowIdx - 1))

\* a Partner file with two rows of the same date and description and
\* different amounts has completed under a fresh hash seed: one new
\* record, one duplicate
C16_Witness ==
    /\ env.hashseed = "random"
    /\ \E i \in 1..Len(log) :
          /\ log[i].ev = "completed" /\ log[i].kind = "partner"
          /\ log[i].info = <<1, 1>>
          /\ \E x \in Repeats(log[i].file, MaxRows + 1) :
                PartnerRow(x).amount # PartnerRow(FirstOf(x)).amount
    /\ Len(table) = 1

=============================================================================
